---------------------------- MODULE Spec2Model ----------------------------
(***************************************************************************)
(* Model of the conjunction-screening pipeline of app/model.py             *)
(* (predict_safe_path and its helpers) and of the fixed-column field       *)
(* editor and closest-approach search of app/utils.py.                     *)
(*                                                                         *)
(* Representation.                                                         *)
(*  - A character is a one-character string; a line is a sequence of       *)
(*    characters; a text is the sequence of its lines as str.splitlines()  *)
(*    yields them.  The alphabet is digits, space, ".", "-", "+" and the   *)
(*    upper-case letters of the catalogue; it has no "e", "n", "i", "f"    *)
(*    or "_", so float() accepts exactly the plain signed decimals.        *)
(*  - A mean motion is a sign-magnitude decimal [neg, ip, fp] with fp in   *)
(*    units of 1e-8 rev/day (the field and the format both carry at most   *)
(*    eight decimals on the catalogue; magnitudes stay below 1000, where   *)
(*    binary doubles render those eight decimals exactly).                 *)
(*  - A coordinate is an integer number of metres (0.001 km); a distance   *)
(*    is kept as its square, math.sqrt being strictly increasing, and      *)
(*    round(d, 3) is the nearest whole number of metres.                   *)
(***************************************************************************)
EXTENDS Integers, Sequences, FiniteSets, TLC

VARIABLES
    pc,               \* position inside predict_safe_path
    satellite_tle,    \* argument: text
    debris_tle,       \* argument: text
    horizon_minutes,  \* argument
    step_seconds,     \* argument
    sat,              \* (sat_name, sat_l1, sat_l2) after validation
    deb,              \* (deb_name, deb_l1, deb_l2) after validation
    regime,           \* local `regime`
    debug_errors,     \* debug_info["errors"]
    k,                \* loop variable of the running propagate_positions
    out,              \* list `out` of the running propagate_positions
    sat_path,         \* local `sat_path`
    deb_path,         \* local `deb_path`
    prop_calls,       \* number of propagate_positions calls entered so far
    result,           \* value returned by predict_safe_path
    line2,            \* argument of adjust_mean_motion_l2
    delta,            \* argument of adjust_mean_motion_l2 (1e-8 rev/day)
    l2_out,           \* value returned by adjust_mean_motion_l2
    path_a,           \* argument of nearest_approach_km
    path_b,           \* argument of nearest_approach_km
    approach          \* value returned by nearest_approach_km

vars == <<pc, satellite_tle, debris_tle, horizon_minutes, step_seconds, sat, deb,
          regime, debug_errors, k, out, sat_path, deb_path, prop_calls, result,
          line2, delta, l2_out, path_a, path_b, approach>>

pipeVars == <<pc, satellite_tle, debris_tle, horizon_minutes, step_seconds, sat, deb,
              regime, debug_errors, k, out, sat_path, deb_path, prop_calls, result>>
editVars == <<line2, delta, l2_out>>
nearVars == <<path_a, path_b, approach>>

----------------------------------------------------------------------------
(* Bounds *)

MaxHorizon == 1     \* largest horizon_minutes tried
MaxPathLen == 2     \* longest trajectory handed to nearest_approach_km alone

----------------------------------------------------------------------------
(* Python string primitives *)

Digits == {"0", "1", "2", "3", "4", "5", "6", "7", "8", "9"}

\* int(c) for a digit character
DigitVal(c) ==
    CASE c = "0" -> 0 [] c = "1" -> 1 [] c = "2" -> 2 [] c = "3" -> 3 [] c = "4" -> 4
      [] c = "5" -> 5 [] c = "6" -> 6 [] c = "7" -> 7 [] c = "8" -> 8 [] c = "9" -> 9

\* str(d) for 0 <= d <= 9
DigitChar(d) == <<"0", "1", "2", "3", "4", "5", "6", "7", "8", "9">>[d + 1]

Min(a, b) == IF a < b THEN a ELSE b
Max(a, b) == IF a > b THEN a ELSE b

\* s[a:b] with 0 <= a, 0 <= b (0-based, end exclusive, clipped to len(s))
Slice(s, a, b) ==
    LET hi == Min(b, Len(s))
    IN  IF a >= hi THEN <<>> ELSE [i \in 1..(hi - a) |-> s[a + i]]

\* s[a:]
SliceFrom(s, a) == Slice(s, a, Len(s))

RECURSIVE LStrip(_)
LStrip(s) == IF s # <<>> /\ Head(s) = " " THEN LStrip(Tail(s)) ELSE s

RECURSIVE RStrip(_)
RStrip(s) == IF s # <<>> /\ s[Len(s)] = " " THEN RStrip(SubSeq(s, 1, Len(s) - 1)) ELSE s

\* s.strip()
Strip(s) == RStrip(LStrip(s))

\* s.startswith(p)
StartsWith(s, p) == Len(s) >= Len(p) /\ SubSeq(s, 1, Len(p)) = p

\* s.ljust(n)
RECURSIVE LJust(_, _)
LJust(s, n) == IF Len(s) >= n THEN s ELSE LJust(Append(s, " "), n)

\* s.rjust(n): the padding of a format width
RECURSIVE RJust(_, _)
RJust(s, n) == IF Len(s) >= n THEN s ELSE RJust(<<" ">> \o s, n)

----------------------------------------------------------------------------
(* app/model.py: normalisation and validation *)

\* [l.strip() for l in tle_text.strip().splitlines() if l.strip()]
StrippedLines(text) ==
    LET st == [i \in 1..Len(text) |-> Strip(text[i])]
    IN  SelectSeq(st, LAMBDA l : l # <<>>)

UNKNOWN == <<"U", "N", "K", "N", "O", "W", "N">>

\* raise ValueError(msg) is [ok |-> FALSE, err |-> msg]
normalize_tle_block(tle_text) ==
    LET lines == StrippedLines(tle_text)
    IN  IF Len(lines) = 3 /\ StartsWith(lines[2], <<"1", " ">>)
                          /\ StartsWith(lines[3], <<"2", " ">>)
        THEN [ok |-> TRUE, name |-> lines[1], L1 |-> lines[2], L2 |-> lines[3]]
        ELSE IF Len(lines) = 2 /\ StartsWith(lines[1], <<"1", " ">>)
                               /\ StartsWith(lines[2], <<"2", " ">>)
        THEN [ok |-> TRUE, name |-> UNKNOWN, L1 |-> lines[1], L2 |-> lines[2]]
        ELSE [ok |-> FALSE, err |-> "Invalid TLE format"]

validate_tle(tle_text) ==
    LET n == normalize_tle_block(tle_text)
    IN  IF ~n.ok THEN n
        ELSE IF Len(n.L1) < 68 \/ Len(n.L2) < 68
        THEN [ok |-> FALSE, err |-> "TLE lines too short"]
        ELSE n

\* f"{name}\n{L1}\n{L2}", as the sequence of lines splitlines() gives back
JoinTle(name, L1, L2) == <<name, L1, L2>>

----------------------------------------------------------------------------
(* Python float(), f"{x:11.8f}" and float arithmetic on the decimal model *)

RECURSIVE DigitsValue(_)
DigitsValue(ds) ==
    IF ds = <<>> THEN 0
    ELSE 10 * DigitsValue(SubSeq(ds, 1, Len(ds) - 1)) + DigitVal(ds[Len(ds)])

\* index of the first "." of s, or 0
RECURSIVE DotIndex(_, _)
DotIndex(s, i) ==
    IF i > Len(s) THEN 0 ELSE IF s[i] = "." THEN i ELSE DotIndex(s, i + 1)

AllDigits(s) == \A i \in 1..Len(s) : s[i] \in Digits

\* float(s): surrounding blanks are ignored, then [sign] digits [. digits] with
\* at least one digit.  A failure is Python's ValueError.
ParseFloat(s) ==
    LET t    == Strip(s)
        sgn  == t # <<>> /\ t[1] \in {"-", "+"}
        body == IF sgn THEN Tail(t) ELSE t
        dot  == DotIndex(body, 1)
        ipd  == IF dot = 0 THEN body ELSE SubSeq(body, 1, dot - 1)
        fpd  == IF dot = 0 THEN <<>> ELSE SubSeq(body, dot + 1, Len(body))
        fp8  == SubSeq(fpd \o <<"0", "0", "0", "0", "0", "0", "0", "0">>, 1, 8)
    IN  IF AllDigits(ipd) /\ AllDigits(fpd) /\ Len(ipd) + Len(fpd) > 0
        THEN [ok |-> TRUE, neg |-> (sgn /\ t[1] = "-"),
              ip |-> DigitsValue(ipd), fp |-> DigitsValue(fp8)]
        ELSE [ok |-> FALSE]

FracUnit == 100000000

\* x + d/1e8 for a decimal x and an integer d with |d| < FracUnit
AddDelta(x, d) ==
    LET f2 == IF x.neg THEN x.fp - d ELSE x.fp + d
    IN  IF f2 >= FracUnit THEN [neg |-> x.neg, ip |-> x.ip + 1, fp |-> f2 - FracUnit]
        ELSE IF f2 >= 0 THEN [neg |-> (x.neg /\ (x.ip > 0 \/ f2 > 0)), ip |-> x.ip, fp |-> f2]
        ELSE IF x.ip >= 1 THEN [neg |-> x.neg, ip |-> x.ip - 1, fp |-> f2 + FracUnit]
        ELSE [neg |-> ~x.neg, ip |-> 0, fp |-> -f2]

\* str(n) for n >= 0
RECURSIVE IntToStr(_)
IntToStr(n) ==
    IF n < 10 THEN <<DigitChar(n)>>
    ELSE Append(IntToStr(n \div 10), DigitChar(n % 10))

\* the eight decimals of fp
Frac8(fp) ==
    LET d == IntToStr(fp)
    IN  [i \in 1..(8 - Len(d)) |-> "0"] \o d

\* f"{x:11.8f}": sign, integer part, ".", eight decimals, padded on the left
\* with blanks up to a MINIMUM width of 11 (a longer rendering is kept whole)
FormatMM(x) ==
    RJust((IF x.neg THEN <<"-">> ELSE <<>>) \o IntToStr(x.ip) \o <<".">> \o Frac8(x.fp), 11)

\* x > n and x < n for a decimal x and an integer n >= 1
Gt(x, n) == ~x.neg /\ (x.ip > n \/ (x.ip = n /\ x.fp > 0))
Lt(x, n) == x.neg \/ x.ip < n

----------------------------------------------------------------------------
(* app/model.py: thresholds and regime *)

LEO_CA_THRESHOLD_KM == 5000     \* 5.0 km in metres
GEO_CA_THRESHOLD_KM == 25000    \* 25.0 km in metres

regime_from_mean_motion_ge(mm_rev_per_day) ==
    IF ~Lt(mm_rev_per_day, 10) THEN "LEO"
    ELSE IF Lt(mm_rev_per_day, 2) THEN "GEO"
    ELSE "MEO"

regime_from_mean_motion(mm_rev_per_day) ==
    IF Gt(mm_rev_per_day, 10) THEN "LEO"
    ELSE IF Lt(mm_rev_per_day, 2) THEN "GEO"
    ELSE "MEO"

----------------------------------------------------------------------------
(* app/utils.py: checksum and fixed-column field editor *)

RECURSIVE CharSum(_)
CharSum(s) ==
    IF s = <<>> THEN 0
    ELSE CharSum(Tail(s)) + (IF Head(s) \in Digits THEN DigitVal(Head(s))
                             ELSE IF Head(s) = "-" THEN 1 ELSE 0)

tle_checksum(line) == DigitChar(CharSum(Slice(line, 0, 68)) % 10)

\* replaces as many columns as `value` has: the span is NOT forced to end - start + 1
replace_col_span(s, start, end, value) ==
    Slice(s, 0, start - 1) \o value \o SliceFrom(s, end)

\* float() raising on the field is [ok |-> FALSE]
adjust_mean_motion_l2(line, delta_rev_per_day) ==
    LET current_mm == ParseFloat(Slice(line, 52, 63))
    IN  IF ~current_mm.ok THEN [ok |-> FALSE, err |-> "ValueError"]
        ELSE LET new_mm == AddDelta(current_mm, delta_rev_per_day)
                 mm_str == FormatMM(new_mm)
                 l2a    == replace_col_span(line, 53, 63, mm_str)
                 l2b    == IF Len(l2a) < 69 THEN Append(LJust(l2a, 68), "0") ELSE l2a
             IN  [ok |-> TRUE, l2 |-> Append(Slice(l2b, 0, 68), tle_checksum(l2b))]

----------------------------------------------------------------------------
(* app/model.py: maneuver synthesis *)

DV_TO_MM == 5000    \* 0.00005 rev/day per m/s, in units of 1e-8 rev/day

\* any exception inside the try returns original_tle
generate_safe_tle(original_tle, dv_mps) ==
    LET n == normalize_tle_block(original_tle)
    IN  IF ~n.ok THEN original_tle
        ELSE LET current_mm == ParseFloat(Slice(n.L2, 52, 63))
             IN  IF ~current_mm.ok THEN original_tle
                 ELSE LET new_mm == AddDelta(current_mm, dv_mps * DV_TO_MM)
                          mm_str == FormatMM(new_mm)
                      IN  JoinTle(n.name, n.L1,
                                  Slice(n.L2, 0, 52) \o mm_str \o SliceFrom(n.L2, 63))

----------------------------------------------------------------------------
(* Catalogue of element-set texts the requests are drawn from *)

ISS_L1 ==
    <<"1", " ", "2", "5", "5", "4", "4", "U", " ", "9", "8", "0", "6", "7", "A", " ",
      " ", " ", "0", "8", "2", "6", "4", ".", "5", "1", "7", "8", "2", "5", "2", "8",
      " ", "-", ".", "0", "0", "0", "0", "2", "1", "8", "2", " ", " ", "0", "0", "0",
      "0", "0", "-", "0", " ", "-", "1", "1", "6", "0", "6", "-", "4", " ", "0", " ",
      " ", "2", "9", "2", "7">>

DEB_L1 ==
    <<"1", " ", "3", "3", "4", "4", "2", "U", " ", "9", "3", "0", "3", "6", "S", "X",
      " ", " ", "0", "8", "2", "6", "4", ".", "1", "2", "3", "4", "5", "6", "7", "8",
      " ", " ", ".", "0", "0", "0", "0", "1", "2", "3", "4", " ", " ", "0", "0", "0",
      "0", "0", "-", "0", " ", " ", "1", "2", "3", "4", "5", "-", "3", " ", "0", " ",
      " ", "9", "9", "9", "1">>

L2_PREFIX ==
    <<"2", " ", "2", "5", "5", "4", "4", " ", " ", "5", "1", ".", "6", "4", "1", "6",
      " ", "2", "4", "7", ".", "4", "6", "2", "7", " ", "0", "0", "0", "6", "7", "0",
      "3", " ", "1", "3", "0", ".", "5", "3", "6", "0", " ", "3", "2", "5", ".", "0",
      "2", "8", "8", " ">>

REV_A == <<"5", "6", "3", "5", "3">>
REV_B == <<" ", " ", " ", " ", "7">>

\* columns 53-63 of line 2
MM_LEO == <<"1", "5", ".", "7", "2", "1", "2", "5", "3", "9", "1">>
MM_TEN == <<"1", "0", ".", "0", "0", "0", "0", "0", "0", "0", "0">>
MM_TEN_UP == <<"1", "0", ".", "0", "0", "0", "0", "0", "0", "0", "1">>
MM_TWO == <<" ", "2", ".", "0", "0", "0", "0", "0", "0", "0", "0">>
MM_TWO_DOWN == <<" ", "1", ".", "9", "9", "9", "9", "9", "9", "9", "9">>
MM_GEO == <<" ", "1", ".", "0", "0", "2", "7", "0", "0", "0", "0">>
MM_BAD == <<"1", "5", ".", "7", "2", "1", "2", "X", "3", "9", "1">>
MM_HUNDRED == <<"1", "0", "0", ".", "0", "0", "0", "0", "0", "0", "0">>
MM_NEAR_HUNDRED == <<"9", "9", ".", "9", "9", "9", "9", "9", "9", "9", "9">>
MM_MINUS_TEN == <<"-", "1", "0", ".", "0", "0", "0", "0", "0", "0", "0">>
MM_MINUS_NINE == <<"-", "9", ".", "9", "9", "9", "9", "9", "9", "9", "9">>
MM_ZERO == <<" ", "0", ".", "0", "0", "0", "0", "0", "0", "0", "0">>
MM_BIG == <<"9", "9", "9", ".", "9", "9", "9", "9", "9", "9", "9">>

NAME_ISS == <<"I", "S", "S">>
NAME_DEB == <<"D", "E", "B">>
BLANK == <<" ", " ">>

\* a 69-column line 2 with a correct checksum in column 69
MkL2(field, rev) ==
    LET body == L2_PREFIX \o field \o rev
    IN  Append(body, tle_checksum(body))

SatFields == {MM_LEO, MM_TEN, MM_TEN_UP, MM_TWO, MM_TWO_DOWN, MM_GEO, MM_BAD}

ValidSatTexts ==
    {<<NAME_ISS, ISS_L1, MkL2(f, REV_A)>> : f \in SatFields}
    \cup {<<ISS_L1, MkL2(MM_LEO, REV_A)>>,
          <<BLANK, BLANK \o NAME_ISS \o BLANK, <<>>, BLANK \o ISS_L1, MkL2(MM_LEO, REV_A) \o BLANK>>,
          <<NAME_ISS, Slice(ISS_L1, 0, 68), Slice(MkL2(MM_LEO, REV_A), 0, 68)>>}

InvalidSatTexts ==
    {<<>>,
     <<ISS_L1>>,
     <<NAME_ISS, MkL2(MM_LEO, REV_A), ISS_L1>>,
     <<NAME_ISS, ISS_L1, Slice(MkL2(MM_LEO, REV_A), 0, 67)>>,
     <<NAME_ISS, NAME_ISS, ISS_L1, MkL2(MM_LEO, REV_A)>>}

SatTexts == ValidSatTexts \cup InvalidSatTexts

DebTexts ==
    {<<NAME_DEB, DEB_L1, MkL2(MM_LEO, REV_B)>>,
     <<DEB_L1, MkL2(MM_GEO, REV_B)>>,
     <<NAME_DEB, Slice(DEB_L1, 0, 60), MkL2(MM_LEO, REV_B)>>,
     <<NAME_DEB>>}

Horizons == -1..MaxHorizon
Steps == {-60, 0, 60, 300}

----------------------------------------------------------------------------
(* The external propagator (sgp4): what one call may hand back *)

\* a finite component is <<"num", metres>>; NaN and +-inf are tagged
Num(x) == <<"num", x>>
NaN == <<"nan", 0>>
PosInf == <<"inf", 0>>

Vec(x, y, z) == <<Num(x), Num(y), Num(z)>>
ZeroV == Vec(0, 0, 0)

\* satellite 7000 km from the centre; debris offsets chosen around the two
\* thresholds: 5 km exactly, 5.00025 km, 25 km exactly, 25.0002 km, 1 km, 30 km
SatOutcomes ==
    {[e |-> 0, r |-> Vec(7000000, 0, 0), v |-> ZeroV],
     [e |-> 1, r |-> <<NaN, NaN, NaN>>, v |-> <<NaN, NaN, NaN>>]}

DebOutcomes ==
    {[e |-> 0, r |-> Vec(7003000, 4000, 0), v |-> ZeroV],
     [e |-> 0, r |-> Vec(7003000, 4000, 50), v |-> ZeroV],
     [e |-> 0, r |-> Vec(7000000, 0, 25000), v |-> ZeroV],
     [e |-> 0, r |-> Vec(7000000, 100, 25000), v |-> ZeroV],
     [e |-> 0, r |-> <<Num(7000000), NaN, Num(1000)>>, v |-> <<PosInf, Num(0), Num(0)>>],
     [e |-> 0, r |-> Vec(7000000, 0, 30000), v |-> ZeroV],
     [e |-> 6, r |-> <<NaN, NaN, NaN>>, v |-> <<NaN, NaN, NaN>>]}

----------------------------------------------------------------------------
(* app/model.py: sampling *)

sanitize_vector(vec) == [i \in 1..Len(vec) |-> IF vec[i][1] = "num" THEN vec[i][2] ELSE 0]

\* whether range(0, stop, step) yields j (j a multiple of step, step # 0)
InRange(j, stop, step) == IF step > 0 THEN j < stop ELSE j > stop

\* stop of range(0, minutes*60 + 1, step_s)
RangeStop(minutes) == minutes * 60 + 1

\* the dict appended for offset j; "t" is kept as the offset from t0
Sample(j, o) == [t |-> j, r |-> sanitize_vector(o.r), v |-> sanitize_vector(o.v)]

----------------------------------------------------------------------------
(* app/model.py and app/utils.py: closest approach *)

Inf == <<>>         \* float("inf")

\* (ax-bx)**2 + (ay-by)**2 + (az-bz)**2: the square of d
Dist2(ra, rb) ==
    (ra[1] - rb[1]) * (ra[1] - rb[1]) + (ra[2] - rb[2]) * (ra[2] - rb[2])
        + (ra[3] - rb[3]) * (ra[3] - rb[3])

\* d < dmin
CloserStrict(d2, dmin) == dmin = Inf \/ d2 < dmin[1]
CloserOrEqual(d2, dmin) == dmin = Inf \/ d2 <= dmin[1]

\* the for loop over range(n) from index i on, with `d <= dmin`
RECURSIVE ScanLe(_, _, _, _, _, _)
ScanLe(a, b, i, n, dmin, kmin) ==
    IF i >= n THEN [dmin |-> dmin, kmin |-> kmin]
    ELSE LET d2 == Dist2(a[i + 1].r, b[i + 1].r)
         IN  IF CloserOrEqual(d2, dmin) THEN ScanLe(a, b, i + 1, n, <<d2>>, i)
             ELSE ScanLe(a, b, i + 1, n, dmin, kmin)

\* the for loop over range(n) from index i on
RECURSIVE Scan(_, _, _, _, _, _)
Scan(a, b, i, n, dmin, kmin) ==
    IF i >= n THEN [dmin |-> dmin, kmin |-> kmin]
    ELSE LET d2 == Dist2(a[i + 1].r, b[i + 1].r)
         IN  IF CloserStrict(d2, dmin) THEN Scan(a, b, i + 1, n, <<d2>>, i)
             ELSE Scan(a, b, i + 1, n, dmin, kmin)

\* meta is {} (the empty function) or the four-key dict
MetaOf(a, b, kmin) ==
    IF kmin >= 0
    THEN [time |-> a[kmin + 1].t, sat_r |-> a[kmin + 1].r, deb_r |-> b[kmin + 1].r,
          index |-> kmin]
    ELSE <<>>

nearest_approach_km_le(a, b) ==
    LET s == ScanLe(a, b, 0, Min(Len(a), Len(b)), Inf, -1)
    IN  [dmin |-> s.dmin, meta |-> MetaOf(a, b, s.kmin)]

\* app/model.py
nearest_approach_km(a, b) ==
    LET s == Scan(a, b, 0, Min(Len(a), Len(b)), Inf, -1)
    IN  [dmin |-> s.dmin, meta |-> MetaOf(a, b, s.kmin)]

\* app/utils.py (the same scan)
utils_nearest_approach_km(a, b) ==
    LET s == Scan(a, b, 0, Min(Len(a), Len(b)), Inf, -1)
    IN  [dmin |-> s.dmin, meta |-> MetaOf(a, b, s.kmin)]

\* floor(sqrt(n)) by bisection on [lo, hi), 0 <= n < 46341 * 46341
RECURSIVE ISqrtBetween(_, _, _)
ISqrtBetween(n, lo, hi) ==
    IF hi - lo <= 1 THEN lo
    ELSE LET mid == (lo + hi) \div 2
         IN  IF mid * mid <= n THEN ISqrtBetween(n, mid, hi) ELSE ISqrtBetween(n, lo, mid)

\* round(math.sqrt(d2), 3) in metres: s if d < s + 1/2, else s + 1
RoundKm3(d2) ==
    LET s == ISqrtBetween(d2, 0, 46341)
    IN  IF d2 > s * s + s THEN s + 1 ELSE s

----------------------------------------------------------------------------
(* app/model.py: predict_safe_path, one action per stage *)

None == <<>>            \* Python None; a present value x is <<x>>
Pending == [pending |-> TRUE]

\* step_s_adjusted
step_s_adjusted == IF regime # "GEO" THEN step_seconds ELSE Max(300, step_seconds)

SatText == JoinTle(sat.name, sat.L1, sat.L2)
DebText == JoinTle(deb.name, deb.L1, deb.L2)

\* only the satellite is validated before the pipeline goes on
ValidateSatOnly ==
    /\ pc = "start"
    /\ LET vs == validate_tle(satellite_tle)
           vd == normalize_tle_block(debris_tle)
       IN  IF ~vs.ok
           THEN /\ result' = [error |-> <<"TLE validation failed", vs.err>>]
                /\ pc' = "done"
                /\ UNCHANGED <<sat, deb>>
           ELSE /\ sat' = [name |-> vs.name, L1 |-> vs.L1, L2 |-> vs.L2]
                /\ deb' = IF vd.ok THEN [name |-> vd.name, L1 |-> vd.L1, L2 |-> vd.L2]
                          ELSE [name |-> UNKNOWN, L1 |-> <<>>, L2 |-> <<>>]
                /\ pc' = "regime"
                /\ UNCHANGED result
    /\ UNCHANGED <<satellite_tle, debris_tle, horizon_minutes, step_seconds, regime,
                   debug_errors, k, out, sat_path, deb_path, prop_calls>>
    /\ UNCHANGED <<editVars, nearVars>>

\* 1) Validate: the satellite first, then the debris; the first failure returns
Validate ==
    /\ pc = "start"
    /\ LET vs == validate_tle(satellite_tle)
           vd == validate_tle(debris_tle)
       IN  IF ~vs.ok
           THEN /\ result' = [error |-> <<"TLE validation failed", vs.err>>]
                /\ pc' = "done"
                /\ UNCHANGED <<sat, deb>>
           ELSE IF ~vd.ok
           THEN /\ result' = [error |-> <<"TLE validation failed", vd.err>>]
                /\ pc' = "done"
                /\ UNCHANGED <<sat, deb>>
           ELSE /\ sat' = [name |-> vs.name, L1 |-> vs.L1, L2 |-> vs.L2]
                /\ deb' = [name |-> vd.name, L1 |-> vd.L1, L2 |-> vd.L2]
                /\ pc' = "regime"
                /\ UNCHANGED result
    /\ UNCHANGED <<satellite_tle, debris_tle, horizon_minutes, step_seconds, regime,
                   debug_errors, k, out, sat_path, deb_path, prop_calls>>
    /\ UNCHANGED <<editVars, nearVars>>

\* the parse failure is swallowed without a diagnostic
RegimeSilent ==
    /\ pc = "regime"
    /\ LET mm_sat == ParseFloat(Slice(sat.L2, 52, 63))
       IN  regime' = IF mm_sat.ok THEN regime_from_mean_motion(mm_sat) ELSE "UNKNOWN"
    /\ pc' = "propagate_sat"
    /\ UNCHANGED <<satellite_tle, debris_tle, horizon_minutes, step_seconds, sat, deb,
                   debug_errors, k, out, sat_path, deb_path, prop_calls, result>>
    /\ UNCHANGED <<editVars, nearVars>>

\* 2) Regime
Regime ==
    /\ pc = "regime"
    /\ LET mm_sat == ParseFloat(Slice(sat.L2, 52, 63))
       IN  IF mm_sat.ok
           THEN /\ regime' = regime_from_mean_motion(mm_sat)
                /\ UNCHANGED debug_errors
           ELSE /\ regime' = "UNKNOWN"
                /\ debug_errors' = Append(debug_errors, "Mean motion parsing failed")
    /\ pc' = "propagate_sat"
    /\ UNCHANGED <<satellite_tle, debris_tle, horizon_minutes, step_seconds, sat, deb,
                   k, out, sat_path, deb_path, prop_calls, result>>
    /\ UNCHANGED <<editVars, nearVars>>

\* propagate_positions up to the first test of the for loop.  `tw` is whether
\* Satrec.twoline2rv accepted the lines (an exception of either call returns []);
\* range() raises ValueError on a zero step, outside the try.
PropagateEnter(tle_text, minutes, step_s, tw) ==
    IF ~validate_tle(tle_text).ok \/ ~tw THEN [kind |-> "return", path |-> <<>>]
    ELSE IF step_s = 0 THEN [kind |-> "raise"]
    ELSE IF ~InRange(0, RangeStop(minutes), step_s) THEN [kind |-> "return", path |-> <<>>]
    ELSE [kind |-> "loop"]

\* one pass of the for body at offset k with propagator answer o, then the
\* loop test for the next offset
PropagateBody(o, minutes, step_s) ==
    LET out2 == IF o.e = 0 THEN Append(out, Sample(k, o)) ELSE out
    IN  IF InRange(k + step_s, RangeStop(minutes), step_s)
        THEN [kind |-> "loop", k |-> k + step_s, out |-> out2]
        ELSE [kind |-> "return", path |-> out2]

\* 3) Propagate, satellite: the call
SatStart ==
    /\ pc = "propagate_sat"
    /\ prop_calls' = prop_calls + 1
    /\ \E tw \in BOOLEAN :
         LET e == PropagateEnter(SatText, horizon_minutes, step_s_adjusted, tw)
         IN  /\ pc' = CASE e.kind = "return" -> "propagate_deb"
                        [] e.kind = "raise" -> "fault"
                        [] e.kind = "loop" -> "sample_sat"
             /\ sat_path' = IF e.kind = "return" THEN e.path ELSE sat_path
    /\ k' = 0
    /\ out' = <<>>
    /\ UNCHANGED <<satellite_tle, debris_tle, horizon_minutes, step_seconds, sat, deb,
                   regime, debug_errors, deb_path, result>>
    /\ UNCHANGED <<editVars, nearVars>>

\* 3) Propagate, satellite: one sampled instant
SatSample ==
    /\ pc = "sample_sat"
    /\ \E o \in SatOutcomes :
         LET b == PropagateBody(o, horizon_minutes, step_s_adjusted)
         IN  IF b.kind = "loop"
             THEN /\ k' = b.k
                  /\ out' = b.out
                  /\ UNCHANGED <<pc, sat_path>>
             ELSE /\ sat_path' = b.path
                  /\ pc' = "propagate_deb"
                  /\ k' = 0
                  /\ out' = <<>>
    /\ UNCHANGED <<satellite_tle, debris_tle, horizon_minutes, step_seconds, sat, deb,
                   regime, debug_errors, deb_path, prop_calls, result>>
    /\ UNCHANGED <<editVars, nearVars>>

\* 3) Propagate, debris: the call
DebStart ==
    /\ pc = "propagate_deb"
    /\ prop_calls' = prop_calls + 1
    /\ \E tw \in BOOLEAN :
         LET e == PropagateEnter(DebText, horizon_minutes, step_s_adjusted, tw)
         IN  /\ pc' = CASE e.kind = "return" -> "assess"
                        [] e.kind = "raise" -> "fault"
                        [] e.kind = "loop" -> "sample_deb"
             /\ deb_path' = IF e.kind = "return" THEN e.path ELSE deb_path
    /\ k' = 0
    /\ out' = <<>>
    /\ UNCHANGED <<satellite_tle, debris_tle, horizon_minutes, step_seconds, sat, deb,
                   regime, debug_errors, sat_path, result>>
    /\ UNCHANGED <<editVars, nearVars>>

\* 3) Propagate, debris: one sampled instant
DebSample ==
    /\ pc = "sample_deb"
    /\ \E o \in DebOutcomes :
         LET b == PropagateBody(o, horizon_minutes, step_s_adjusted)
         IN  IF b.kind = "loop"
             THEN /\ k' = b.k
                  /\ out' = b.out
                  /\ UNCHANGED <<pc, deb_path>>
             ELSE /\ deb_path' = b.path
                  /\ pc' = "assess"
                  /\ k' = 0
                  /\ out' = <<>>
    /\ UNCHANGED <<satellite_tle, debris_tle, horizon_minutes, step_seconds, sat, deb,
                   regime, debug_errors, sat_path, prop_calls, result>>
    /\ UNCHANGED <<editVars, nearVars>>

\* the diagnostics appended after the two propagations
PathErrors ==
    (IF sat_path = <<>> THEN <<"Satellite propagation returned 0 points">> ELSE <<>>)
    \o (IF deb_path = <<>> THEN <<"Debris propagation returned 0 points">> ELSE <<>>)

\* threshold = LEO_CA_THRESHOLD_KM if regime == "LEO" else GEO_CA_THRESHOLD_KM
Threshold(r) == IF r = "LEO" THEN LEO_CA_THRESHOLD_KM ELSE GEO_CA_THRESHOLD_KM

\* risky with `<` in place of `<=`
IsRiskyStrict(dmin, threshold) ==
    IF dmin # Inf THEN dmin[1] < threshold * threshold ELSE FALSE

\* risky = False; if dmin_km != inf: risky = dmin_km <= threshold
IsRisky(dmin, threshold) ==
    IF dmin # Inf THEN dmin[1] <= threshold * threshold ELSE FALSE

\* 5) the non-risky branch hands back the synthesized element set as well
SafeTleAlways(risky) == generate_safe_tle(SatText, 1)

\* 5) predicted_safe_tle
SafeTle(risky) == IF risky THEN generate_safe_tle(SatText, 1) ELSE SatText

\* 5) maneuver
Maneuver(risky) ==
    IF risky
    THEN [type |-> "retrograde_burn", recommended_dv_mps |-> 1,
          note |-> "Small along-track tweak to desynchronize TCA."]
    ELSE [type |-> "no_action", recommended_dv_mps |-> 0,
          note |-> "Separation above threshold."]

\* 4), 5) and the returned dict
Assess ==
    /\ pc = "assess"
    /\ LET errs      == debug_errors \o PathErrors
           na        == nearest_approach_km(sat_path, deb_path)
           threshold == Threshold(regime)
           risky     == IsRisky(na.dmin, threshold)
       IN  /\ debug_errors' = errs
           /\ result' =
                [risk |-> [min_distance_km |-> IF na.dmin # Inf THEN <<RoundKm3(na.dmin[1])>>
                                               ELSE None,
                           tca |-> IF "time" \in DOMAIN na.meta THEN <<na.meta.time>> ELSE None,
                           regime |-> regime,
                           threshold_km |-> threshold,
                           risky |-> risky],
                 maneuver |-> Maneuver(risky),
                 tle_output |-> [satellite_tle |-> SatText,
                                 debris_tle |-> DebText,
                                 predicted_safe_tle |-> SafeTle(risky)],
                 paths |-> [satellite_xyz_km |-> [i \in 1..Len(sat_path) |-> sat_path[i].r],
                            debris_xyz_km |-> [i \in 1..Len(deb_path) |-> deb_path[i].r]],
                 debug |-> [errors |-> errs]]
    /\ pc' = "done"
    /\ UNCHANGED <<satellite_tle, debris_tle, horizon_minutes, step_seconds, sat, deb,
                   regime, k, out, sat_path, deb_path, prop_calls>>
    /\ UNCHANGED <<editVars, nearVars>>

----------------------------------------------------------------------------
(* Specification of one request to predict_safe_path *)

NoTle == [name |-> <<>>, L1 |-> <<>>, L2 |-> <<>>]

PipeIdle ==
    /\ pc = "idle"
    /\ satellite_tle = <<>>
    /\ debris_tle = <<>>
    /\ horizon_minutes = 0
    /\ step_seconds = 0
    /\ sat = NoTle
    /\ deb = NoTle
    /\ regime = "unset"
    /\ debug_errors = <<>>
    /\ k = 0
    /\ out = <<>>
    /\ sat_path = <<>>
    /\ deb_path = <<>>
    /\ prop_calls = 0
    /\ result = Pending

EditIdle ==
    /\ line2 = <<>>
    /\ delta = 0
    /\ l2_out = Pending

NearIdle ==
    /\ path_a = <<>>
    /\ path_b = <<>>
    /\ approach = Pending

Init ==
    /\ pc = "start"
    /\ satellite_tle \in SatTexts
    /\ debris_tle \in DebTexts
    /\ horizon_minutes \in Horizons
    /\ step_seconds \in Steps
    /\ sat = NoTle
    /\ deb = NoTle
    /\ regime = "unset"
    /\ debug_errors = <<>>
    /\ k = 0
    /\ out = <<>>
    /\ sat_path = <<>>
    /\ deb_path = <<>>
    /\ prop_calls = 0
    /\ result = Pending
    /\ EditIdle
    /\ NearIdle

Next ==
    \/ Validate
    \/ Regime
    \/ SatStart
    \/ SatSample
    \/ DebStart
    \/ DebSample
    \/ Assess

Spec == Init /\ [][Next]_vars

----------------------------------------------------------------------------
(* Specification of one call of app/utils.py adjust_mean_motion_l2 *)

EditFields ==
    {MM_LEO, MM_TEN, MM_TEN_UP, MM_TWO, MM_TWO_DOWN, MM_GEO, MM_BAD, MM_HUNDRED,
     MM_NEAR_HUNDRED, MM_MINUS_TEN, MM_MINUS_NINE, MM_ZERO, MM_BIG}

EditLines ==
    {MkL2(f, rev) : f \in EditFields, rev \in {REV_A, REV_B}}
    \cup {Slice(MkL2(MM_LEO, REV_A), 0, 68), Slice(MkL2(MM_LEO, REV_A), 0, 60)}

\* +0.00005, -0.00005 and 0 rev/day
Deltas == {DV_TO_MM, -DV_TO_MM, 0}

InitEdit ==
    /\ PipeIdle
    /\ NearIdle
    /\ line2 \in EditLines
    /\ delta \in Deltas
    /\ l2_out = Pending

Adjust ==
    /\ l2_out = Pending
    /\ l2_out' = adjust_mean_motion_l2(line2, delta)
    /\ UNCHANGED <<line2, delta>>
    /\ UNCHANGED <<pipeVars, nearVars>>

NextEdit == Adjust

SpecEdit == InitEdit /\ [][NextEdit]_vars

----------------------------------------------------------------------------
(* Specification of one call of nearest_approach_km on arbitrary trajectories *)

NearPositions == {<<0, 0, 0>>, <<3, 4, 0>>, <<0, 5, 0>>}

\* a trajectory with the given positions, sampled every 60 s
PathOf(rs) == [i \in 1..Len(rs) |-> [t |-> 60 * (i - 1), r |-> rs[i], v |-> <<0, 0, 0>>]]

NearPaths == UNION {{PathOf(rs) : rs \in [1..n -> NearPositions]} : n \in 0..MaxPathLen}

InitNear ==
    /\ PipeIdle
    /\ EditIdle
    /\ path_a \in NearPaths
    /\ path_b \in NearPaths
    /\ approach = Pending

NearestModel ==
    /\ approach = Pending
    /\ approach' = [impl |-> "model", value |-> nearest_approach_km(path_a, path_b)]
    /\ UNCHANGED <<path_a, path_b>>
    /\ UNCHANGED <<pipeVars, editVars>>

NearestUtils ==
    /\ approach = Pending
    /\ approach' = [impl |-> "utils", value |-> utils_nearest_approach_km(path_a, path_b)]
    /\ UNCHANGED <<path_a, path_b>>
    /\ UNCHANGED <<pipeVars, editVars>>

NextNear == NearestModel \/ NearestUtils

SpecNear == InitNear /\ [][NextNear]_vars

----------------------------------------------------------------------------
(* Properties *)

\* predict_safe_path returned the success shape
Success == pc = "done" /\ "risk" \in DOMAIN result

\* the (name, line1, line2) element set a text denotes
ElementSet(text) ==
    LET n == normalize_tle_block(text)
    IN  <<n.name, n.L1, n.L2>>

MeanMotionField == Slice(sat.L2, 52, 63)

\* the index-aligned pairs nearest_approach_km looks at
Pairs == 1..Min(Len(sat_path), Len(deb_path))
PairDist2(i) == Dist2(sat_path[i].r, deb_path[i].r)

\* C1: when the satellite or the debris text fails validation, the request ends
\* with an error object that has the single key "error", and propagate_positions
\* is never entered (no call counted, no trajectory, no later stage reached).
C1_InvalidInputShortCircuits ==
    (~validate_tle(satellite_tle).ok \/ ~validate_tle(debris_tle).ok)
        => /\ pc \in {"start", "done"}
           /\ prop_calls = 0
           /\ sat_path = <<>> /\ deb_path = <<>>
           /\ pc = "done" => DOMAIN result = {"error"}

\* C1 witness: a valid satellite with an invalid debris text has returned the error
C1_Witness ==
    /\ pc = "done"
    /\ validate_tle(satellite_tle).ok
    /\ ~validate_tle(debris_tle).ok
    /\ DOMAIN result = {"error"}

\* C2: no request ends in an unhandled fault (the claim as stated: every request
\* returns the success shape or an error object).
C2_NoUnhandledFault == pc # "fault"

\* C3 as stated, on the reported fields: risky iff min_distance_km is present and
\* 0 <= min_distance_km <= threshold_km; an empty trajectory gives risky = false,
\* min_distance_km = null and a diagnostic.
C3_RiskyIffReportedWithinThreshold ==
    Success =>
        LET r == result.risk
        IN  /\ r.risky <=> (r.min_distance_km # None /\ 0 <= r.min_distance_km[1]
                                                   /\ r.min_distance_km[1] <= r.threshold_km)
            /\ Pairs = {} => ~r.risky /\ r.min_distance_km = None

\* C3 amended: risky iff at least one aligned pair exists and the UNROUNDED minimum
\* distance is <= threshold_km; the reported min_distance_km is that minimum rounded
\* to 3 decimals (within half a metre of it); with an empty trajectory the request
\* still succeeds with risky = false, min_distance_km = null, tca = null and the
\* empty propagation named in debug.errors.
C3_RiskyIffUnroundedWithinThreshold ==
    /\ (pc = "done" /\ validate_tle(satellite_tle).ok /\ validate_tle(debris_tle).ok)
           => Success
    /\ Success =>
        LET r  == result.risk
            th == r.threshold_km
        IN  /\ r.risky <=> \E i \in Pairs : PairDist2(i) <= th * th
            /\ Pairs # {} =>
                 /\ r.min_distance_km # None
                 /\ \E i \in Pairs :
                      /\ \A j \in Pairs : PairDist2(i) <= PairDist2(j)
                      /\ LET m == r.min_distance_km[1]
                         IN  m * m - m < PairDist2(i) \/ (m = 0 /\ PairDist2(i) = 0)
                      /\ LET m == r.min_distance_km[1]
                         IN  PairDist2(i) <= m * m + m
            /\ Pairs = {} =>
                 /\ ~r.risky
                 /\ r.min_distance_km = None
                 /\ r.tca = None
                 /\ sat_path = <<>> =>
                      \E n \in DOMAIN result.debug.errors :
                          result.debug.errors[n] = "Satellite propagation returned 0 points"
                 /\ deb_path = <<>> =>
                      \E n \in DOMAIN result.debug.errors :
                          result.debug.errors[n] = "Debris propagation returned 0 points"

\* C3 witness: a minimum distance exactly equal to the threshold was reported risky
C3_Witness ==
    /\ Success
    /\ \E i \in Pairs : /\ \A j \in Pairs : PairDist2(i) <= PairDist2(j)
                        /\ PairDist2(i) = result.risk.threshold_km * result.risk.threshold_km
    /\ result.risk.risky

\* C4: the regime is LEO for a mean motion > 10, GEO for < 2 and MEO otherwise
\* (2 and 10 are MEO); the threshold is 5.0 km for LEO and 25.0 km for MEO and GEO.
C4_RegimeAndThreshold ==
    Success =>
        LET mm == ParseFloat(MeanMotionField)
            r  == result.risk
        IN  /\ mm.ok => r.regime = IF Gt(mm, 10) THEN "LEO"
                                   ELSE IF Lt(mm, 2) THEN "GEO" ELSE "MEO"
            /\ r.regime = "LEO" => r.threshold_km = 5000
            /\ r.regime \in {"MEO", "GEO"} => r.threshold_km = 25000

\* C4 witness: a mean motion of exactly 10 was classified (as MEO, 25 km)
C4_Witness ==
    /\ Success
    /\ MeanMotionField = MM_TEN
    /\ result.risk.regime = "MEO"
    /\ result.risk.threshold_km = 25000

\* C5: with n = min(len(a), len(b)) > 0 nearest_approach_km returns the smallest
\* distance over indices 0..n-1 with the EARLIEST index attaining it and that
\* index's timestamp and two positions; with n = 0 it returns inf and {}.
C5_NearestIsEarliestMinimum ==
    approach # Pending =>
        LET n    == Min(Len(path_a), Len(path_b))
            D(i) == Dist2(path_a[i].r, path_b[i].r)
            v    == approach.value
        IN  IF n = 0
            THEN v.dmin = Inf /\ DOMAIN v.meta = {}
            ELSE \E i \in 1..n :
                   /\ \A j \in 1..n : D(i) <= D(j)
                   /\ \A j \in 1..(i - 1) : D(j) > D(i)
                   /\ v.dmin = <<D(i)>>
                   /\ v.meta = [time |-> path_a[i].t, sat_r |-> path_a[i].r,
                                deb_r |-> path_b[i].r, index |-> i - 1]

\* C5 witness: two different pairs tie for the minimum and index 0 was returned
C5_Witness ==
    /\ approach # Pending
    /\ Len(path_a) >= 2 /\ Len(path_b) >= 2
    /\ path_b[1].r # path_b[2].r
    /\ Dist2(path_a[1].r, path_b[1].r) = Dist2(path_a[2].r, path_b[2].r)
    /\ Dist2(path_a[1].r, path_b[1].r) > 0
    /\ approach.value.meta.index = 0

\* C6: a result that is not risky carries no_action with delta-v 0 and a safe
\* element set equal to the input satellite element set (name, line1, line2); in
\* every result the reported satellite and debris element sets are the input ones.
C6_NotRiskyKeepsElementSet ==
    Success =>
        /\ ~result.risk.risky =>
             /\ result.maneuver.type = "no_action"
             /\ result.maneuver.recommended_dv_mps = 0
             /\ result.tle_output.predicted_safe_tle = ElementSet(satellite_tle)
        /\ result.tle_output.satellite_tle = ElementSet(satellite_tle)
        /\ result.tle_output.debris_tle = ElementSet(debris_tle)

\* C6 witness: a measured separation above the threshold gave a non-risky result
C6_Witness ==
    /\ Success
    /\ result.risk.min_distance_km # None
    /\ ~result.risk.risky

\* C7: a risky result carries retrograde_burn with delta-v 1.0 and a safe element
\* set whose line 2 has 69 characters, the last being the checksum of columns 1-68.
C7_RiskySafeTleChecksumValid ==
    (Success /\ result.risk.risky) =>
        LET l2 == result.tle_output.predicted_safe_tle[3]
        IN  /\ result.maneuver.type = "retrograde_burn"
            /\ result.maneuver.recommended_dv_mps = 1
            /\ Len(l2) = 69
            /\ l2[69] = tle_checksum(l2)

\* C8: for a 69-character line 2 with a numeric mean-motion field,
\* adjust_mean_motion_l2 returns 69 characters that differ from the input only
\* in columns 53-63 and 69.
C8_EditTouchesOnlyFieldAndChecksum ==
    (l2_out # Pending /\ Len(line2) = 69 /\ ParseFloat(Slice(line2, 52, 63)).ok) =>
        /\ l2_out.ok
        /\ Len(l2_out.l2) = 69
        /\ \A c \in (1..69) \ ((53..63) \cup {69}) : l2_out.l2[c] = line2[c]

\* C9: every pair of samples compared index-for-index was produced for the same
\* time offset.
C9_AlignedSamplesShareOffset ==
    Success => \A i \in Pairs : sat_path[i].t = deb_path[i].t

\* C10 as stated: the reported regime is one of LEO, MEO, GEO.
C10_RegimeIsLeoMeoGeo ==
    Success => result.risk.regime \in {"LEO", "MEO", "GEO"}

\* C10 amended: the reported regime is LEO, MEO, GEO or UNKNOWN; it is UNKNOWN
\* exactly when columns 53-63 of the satellite's line 2 do not parse as a number,
\* and then debug.errors holds "Mean motion parsing failed" and the 25 km
\* threshold applies.
C10_RegimeOrUnknown ==
    Success =>
        /\ result.risk.regime \in {"LEO", "MEO", "GEO", "UNKNOWN"}
        /\ result.risk.regime = "UNKNOWN" <=> ~ParseFloat(MeanMotionField).ok
        /\ result.risk.regime = "UNKNOWN" =>
             /\ \E n \in DOMAIN result.debug.errors :
                    result.debug.errors[n] = "Mean motion parsing failed"
             /\ result.risk.threshold_km = 25000

\* C10 witness: a validated pair with a non-numeric mean-motion field succeeded
C10_Witness ==
    /\ Success
    /\ ~ParseFloat(MeanMotionField).ok
    /\ result.risk.regime = "UNKNOWN"

=============================================================================
